---- MODULE Spec2Model ----
(***************************************************************************)
(* gql-checker: a GraphQL schema / Kotlin resolver coverage validator.     *)
(*                                                                         *)
(* The model follows the three functions of the repository that hold its   *)
(* logic: SchemaParser::new (src/src/schema_parser.rs), get_resolver_names *)
(* and main (src/src/main.rs), and KotlinParser::new                       *)
(* (src/src/kotlin_parser/kotlin_parser.rs).  Every directory walk is      *)
(* modelled entry by entry: `walk` holds the entries the WalkDir iterator  *)
(* has still to yield, `walked` the ones it has yielded.                   *)
(*                                                                         *)
(* Strings that the code inspects character by character (the rendering of *)
(* a GraphQL type, the text of a constructor parameter) are sequences of   *)
(* tokens, so that contains / replace / split act on them as they do on    *)
(* the text.                                                               *)
(***************************************************************************)
EXTENDS Integers, Sequences, FiniteSets, TLC

VARIABLES
    pc,                  \* position of the running function
    schema_dir,          \* what the schema path is on disk: "missing", "file" or "dir"
    source_dir,          \* what the source path is on disk; "unvisited" before it is walked
    walk,                \* entries the current WalkDir iterator has still to yield
    walked,              \* entries the current WalkDir iterator has yielded
    found_schema_files,  \* local of SchemaParser::new
    custom_scalars,      \* local of SchemaParser::new
    schema_queries,      \* local of SchemaParser::new
    schema_parser,       \* <<>> or <<the SchemaParser that new returned>>
    query_names,         \* local of main
    existing_resolvers,  \* local of get_resolver_names
    resolvers,           \* <<>> or <<the Vec that get_resolver_names returned>>
    mismatches,          \* <<>> or <<the mismatch Vec main built>>
    result,              \* how the running function ended: "running", or a record
    files,               \* local of KotlinParser::new
    class_map,           \* local of KotlinParser::new
    kotlin_parser        \* <<>> or <<the KotlinParser that new returned>>

vars == <<pc, schema_dir, source_dir, walk, walked, found_schema_files,
          custom_scalars, schema_queries, schema_parser, query_names,
          existing_resolvers, resolvers, mismatches, result, files, class_map,
          kotlin_parser>>

(***************************************************************************)
(* Bounds of the model.                                                    *)
(***************************************************************************)
\* Entries a directory walk yields at most.
MaxFiles == 2
\* Root-type and other fields a schema directory declares at most, over all its files.
MaxFields == 2
\* Arguments the fields of a schema directory declare at most, over all its files.
MaxArgs == 2
\* Function declarations a source directory holds at most, over all its files.
MaxFuns == 2
\* Primary-constructor parameters a source directory holds at most, over all its classes.
MaxParams == 2

(***************************************************************************)
(* Generic helpers.                                                        *)
(***************************************************************************)
Contains(seq, x) == \E i \in 1..Len(seq) : seq[i] = x

RECURSIVE Flatten(_)
Flatten(seqs) ==
    IF seqs = <<>> THEN <<>> ELSE Head(seqs) \o Flatten(Tail(seqs))

RECURSIVE IsWeightedSeq(_, _, _, _, _)
\* seq is prefix followed by exactly n items of total weight at most k, where
\* byWeight[j] is the set of the items of weight j.
IsWeightedSeq(seq, byWeight, n, k, prefix) ==
    IF n = 0 THEN seq = prefix
    ELSE \E j \in 0..k : \E e \in byWeight[j] :
            IsWeightedSeq(seq, byWeight, n - 1, k - j, Append(prefix, e))

(***************************************************************************)
(* Results of a function: Ok, an Err value, or a panic (unwrap on a        *)
(* failure).                                                               *)
(***************************************************************************)
Running == [kind |-> "Running", error |-> "", count |-> 0]
Ok      == [kind |-> "Ok", error |-> "", count |-> 0]
Err(e)  == [kind |-> "Err", error |-> e, count |-> 0]
Panic(e) == [kind |-> "Panic", error |-> e, count |-> 0]

(***************************************************************************)
(* GraphQL schema documents, as graphql_parser hands them to the code.     *)
(*   type       [name, wrappers]: the named type and, from the inside out, *)
(*              the "List" and "NonNull" wrappers around it                *)
(*   argument   [name, value_type]                                         *)
(*   field      [name, arguments]                                          *)
(*   definition [kind, name, fields], kind "Scalar", "Object" or another   *)
(*   entry      [kind, status, definitions]: what WalkDir yields; kind     *)
(*              "graphqls" for a file with the schema suffix               *)
(***************************************************************************)
QUERY_NAME == "Query"

RECURSIVE TypeToString(_)
\* The text of a type: Name, [T] for a list, T! for non-null.
TypeToString(t) ==
    IF t.wrappers = <<>> THEN <<t.name>>
    ELSE LET n == Len(t.wrappers)
             inner == TypeToString([t EXCEPT !.wrappers = SubSeq(t.wrappers, 1, n - 1)])
         IN IF t.wrappers[n] = "NonNull"
            THEN inner \o <<"!">>
            ELSE <<"[">> \o inner \o <<"]">>

\* str.contains('!')
StrContainsBang(str) == Contains(str, "!")

\* str.replace('!', "")
StrReplaceBang(str) == SelectSeq(str, LAMBDA c : c # "!")

\* The Argument built for one declared argument.
MakeArgument(arg) ==
    [name        |-> arg.name,
     value_type  |-> StrReplaceBang(TypeToString(arg.value_type)),
     is_nullable |-> ~StrContainsBang(TypeToString(arg.value_type))]

\* The Query built for one field.
MakeQuery(field) ==
    [name      |-> field.name,
     arguments |-> [i \in 1..Len(field.arguments) |-> MakeArgument(field.arguments[i])]]

\* A test that takes the fields of every object type for queries.
IsAnyObject(def) == def.kind = "Object"

\* Whether a definition is an object type with the root type's name.
IsQueryObject(def) == def.kind = "Object" /\ def.name = QUERY_NAME

ExtractCustomScalars(schema) ==
    LET scalars == SelectSeq(schema, LAMBDA def : def.kind = "Scalar")
    IN [i \in 1..Len(scalars) |-> <<scalars[i].name>>]

ExtractQueries(schema) ==
    LET objs == SelectSeq(schema, IsQueryObject)
    IN Flatten([i \in 1..Len(objs) |->
                  [j \in 1..Len(objs[i].fields) |-> MakeQuery(objs[i].fields[j])]])

\* Whether the final filter keeps an argument.
KeepsArgument(scalars, arg) == ~Contains(scalars, arg.value_type)

\* A constructor that returns the queries without filtering their arguments.
FilterNothing(queries, scalars) == queries

FilterCustomScalars(queries, scalars) ==
    [i \in 1..Len(queries) |->
        [queries[i] EXCEPT !.arguments =
            SelectSeq(queries[i].arguments, LAMBDA arg : KeepsArgument(scalars, arg))]]

GetQueryNames(parser) == [i \in 1..Len(parser.queries) |-> parser.queries[i].name]

(***************************************************************************)
(* Kotlin function declarations, as get_resolver_names sees their text.    *)
(*   function [annotations, signature]: the @SchemaMapping(typeName = T,   *)
(*            field = F) annotations in the text, in text order, as        *)
(*            [type_name, field]; and how the text goes on after `fun`:    *)
(*            "fun name(" or "fun <T> name(" (a generic function)          *)
(*   entry    [kind, status, functions]: kind "error" for a traversal      *)
(*            error, "kt" for a file with the kt extension                 *)
(***************************************************************************)
\* schema_mapping_regex.captures(function_text): the leftmost annotation.
SchemaMappingCaptures(function) ==
    IF function.annotations = <<>> THEN <<>> ELSE <<Head(function.annotations)>>

\* method_name_regex.captures(function_text): `fun`, whitespace, then a name
\* character; a type-parameter list after `fun` does not match.
MethodNameCaptures(function) ==
    IF function.signature = "fun name(" THEN <<"name">> ELSE <<>>

\* A capture loop that keeps only the field bound last: the Vec is replaced
\* where the loop pushes onto it.
ProcessFunctionKeepingLatest(existing, function) ==
    LET caps == SchemaMappingCaptures(function)
    IN IF caps = <<>> THEN existing
       ELSE IF caps[1].type_name # "Query" THEN existing
       ELSE IF MethodNameCaptures(function) = <<>> THEN existing
       ELSE <<caps[1].field>>

\* The body of the capture loop for one function declaration.
ProcessFunction(existing, function) ==
    LET caps == SchemaMappingCaptures(function)
    IN IF caps = <<>> THEN existing
       ELSE IF caps[1].type_name # "Query" THEN existing
       ELSE IF MethodNameCaptures(function) = <<>> THEN existing
       ELSE IF Contains(existing, caps[1].field) THEN existing
       ELSE Append(existing, caps[1].field)

RECURSIVE ProcessFunctions(_, _)
\* The capture loop over the function declarations of one file.
ProcessFunctions(existing, functions) ==
    IF functions = <<>> THEN existing
    ELSE ProcessFunctions(ProcessFunction(existing, Head(functions)), Tail(functions))

\* A fail-fast mismatch loop: it stops at the first query without a resolver.
FindFirstMismatch(names, found) ==
    LET all == SelectSeq(names, LAMBDA name : ~Contains(found, name))
    IN IF all = <<>> THEN <<>> ELSE <<Head(all)>>

\* The mismatch loop of main.
FindMismatches(names, found) == SelectSeq(names, LAMBDA name : ~Contains(found, name))

(***************************************************************************)
(* The directories the runs are checked on.                                *)
(***************************************************************************)
FieldNames == {"employee", "searchEmployee"}

SchemaOther == [kind |-> "other", status |-> "ok", definitions |-> <<>>]
SchemaFile(status, definitions) ==
    [kind |-> "graphqls", status |-> status, definitions |-> definitions]
ScalarDef(name) == [kind |-> "Scalar", name |-> name, fields |-> <<>>]
TypeDef(head, fields) == [kind |-> head[1], name |-> head[2], fields |-> fields]
PlainField(name) == [name |-> name, arguments |-> <<>>]

\* Kinds and names of the definitions that carry fields: the root type, another
\* object type, and an extension of the root type (a type extension, not a type
\* definition).
TypeHeads == {<<"Object", "Query">>, <<"Object", "Mutation">>,
              <<"ObjectExtension", "Query">>}

\* Schema files that declare no field.
FieldlessSchemaEntries ==
    {SchemaOther, SchemaFile("unreadable", <<>>), SchemaFile("malformed", <<>>),
     SchemaFile("ok", <<ScalarDef("Date")>>)}

\* Schema files that declare the fields `fields`, in one definition or split
\* over two.
SchemaFilesDeclaring(fields) ==
    {SchemaFile("ok", <<TypeDef(h, fields)>>) : h \in TypeHeads}
    \cup {SchemaFile("ok", <<TypeDef(h[1], SubSeq(fields, 1, i)),
                             TypeDef(h[2], SubSeq(fields, i + 1, Len(fields)))>>)
          : h \in TypeHeads \X TypeHeads, i \in 1..(Len(fields) - 1)}

\* Schema entries by the number of fields they declare.
PlainSchemaEntries ==
    [j \in 0..MaxFields |->
        IF j = 0 THEN FieldlessSchemaEntries
        ELSE UNION {SchemaFilesDeclaring(fs)
                    : fs \in [1..j -> {PlainField(n) : n \in FieldNames}]}]

\* A schema path on disk: no such path, a file, or a directory of up to
\* MaxFiles entries declaring up to MaxFields fields (byWeight[j]: the entries
\* that declare j of them).
IsSchemaPath(kind, entries, byWeight, maxWeight) ==
    \/ kind = "missing" /\ entries = <<>>
    \/ kind = "file" /\ entries = <<>>
    \/ /\ kind = "dir"
       /\ \E n \in 0..MaxFiles : IsWeightedSeq(entries, byWeight, n, maxWeight, <<>>)

Annotation(type_name, field) == [type_name |-> type_name, field |-> field]
Function(annotations, signature) ==
    [annotations |-> annotations, signature |-> signature]
SourceFile(status, functions) ==
    [kind |-> "kt", status |-> status, functions |-> functions]

\* Source entries without a function declaration: a traversal error, an entry
\* without the kt extension, and kt files that cannot be read, cannot be
\* parsed, or hold no function.
TraversalError == [kind |-> "error", status |-> "ok", functions |-> <<>>]
FunctionlessSourceEntries ==
    {TraversalError,
     [kind |-> "other", status |-> "ok", functions |-> <<>>],
     SourceFile("unreadable", <<>>), SourceFile("unparsed", <<>>),
     SourceFile("ok", <<>>)}

\* Source entries by the number of function declarations they hold.
SourceEntries(functions, functionless) ==
    [j \in 0..MaxFuns |->
        IF j = 0 THEN functionless
        ELSE {SourceFile("ok", fs) : fs \in [1..j -> functions]}]

\* A source path on disk: no such path (WalkDir yields one error), a kt file
\* given as the path (WalkDir yields the file), or a directory of up to MaxFiles
\* entries holding up to MaxFuns function declarations.
IsSourcePath(kind, entries, functions, functionless) ==
    \/ kind = "missing" /\ entries = <<TraversalError>>
    \/ kind = "file" /\ \E f \in functions : entries = <<SourceFile("ok", <<f>>)>>
    \/ /\ kind = "dir"
       /\ \E n \in 0..MaxFiles :
             IsWeightedSeq(entries, SourceEntries(functions, functionless),
                           n, MaxFuns, <<>>)

\* Functions of the runs of main: unannotated, or a resolver of a field, which
\* the schema may or may not declare.
MainFunctions ==
    {Function(<<>>, "fun name(")}
    \cup {Function(<<Annotation("Query", f)>>, "fun name(")
          : f \in FieldNames \cup {"departments"}}

\* The schema paths of the runs of main: the fields are declared on the root
\* type, one definition a file.
MainSchemaEntries ==
    [j \in 0..MaxFields |->
        IF j = 0 THEN FieldlessSchemaEntries
        ELSE {SchemaFile("ok", <<TypeDef(<<"Object", QUERY_NAME>>, fs)>>)
              : fs \in [1..j -> {PlainField(n) : n \in FieldNames}]}]

\* Functions of the runs of get_resolver_names alone.
ResolverFunctions ==
    {Function(<<>>, "fun name("),
     Function(<<Annotation("Mutation", "employee")>>, "fun name(")}
    \cup {Function(<<Annotation("Query", f)>>, sig)
          : f \in FieldNames, sig \in {"fun name(", "fun <T> name("}}

\* Declared types of arguments: every shape over a type that a schema may
\* declare as a scalar, and a built-in type with and without the marker.
ArgumentTypes ==
    {[name |-> "Date", wrappers |-> w]
     : w \in {<<>>, <<"NonNull">>, <<"List">>, <<"List", "NonNull">>,
              <<"NonNull", "List">>, <<"NonNull", "List", "NonNull">>}}
    \cup {[name |-> "ID", wrappers |-> w] : w \in {<<>>, <<"NonNull">>}}

DeclaredArgument(type) ==
    [name |-> IF type.name = "ID" THEN "id" ELSE "on", value_type |-> type]

\* Schema entries by the number of arguments they declare: a root type with one
\* field that takes them, alone or followed by the declaration of scalar Date.
ArgumentSchemaEntries ==
    [j \in 0..MaxArgs |->
        IF j = 0
        THEN {SchemaOther, SchemaFile("ok", <<ScalarDef("Date")>>),
              SchemaFile("ok", <<TypeDef(<<"Object", QUERY_NAME>>,
                                         <<PlainField("employee")>>)>>)}
        ELSE UNION {
               LET root == TypeDef(<<"Object", QUERY_NAME>>,
                                   <<[name |-> "searchEmployee",
                                      arguments |-> [i \in 1..j |-> DeclaredArgument(ts[i])]]>>)
               IN {SchemaFile("ok", <<root>>), SchemaFile("ok", <<root, ScalarDef("Date")>>)}
               : ts \in [1..j -> ArgumentTypes]}]

(***************************************************************************)
(* Kotlin files, as the query of queries.rs captures them.                 *)
(*   parameter  the text of a primary-constructor parameter, in tokens:    *)
(*              <<"val ", "x", ": ", "Int">>                               *)
(*   class      [name, parameters]                                         *)
(*   entry      [kind, status, package, classes]; package is <<>> for a    *)
(*              file without a package header, else <<name>>               *)
(***************************************************************************)
ParameterTexts ==
    {<<"val ", "x", ": ", "Int">>, <<"var ", "y", ": ", "String">>,
     <<"z", ": ", "Int">>, <<"w:Int">>}

ClassNames == {"A", "B"}
Packages == {<<>>, <<"com.example.app">>}

KotlinFile(status, package, classes) ==
    [kind |-> "kt", status |-> status, package |-> package, classes |-> classes]

ParameterlessKotlinEntries ==
    {[kind |-> "error", status |-> "ok", package |-> <<>>, classes |-> <<>>],
     [kind |-> "other", status |-> "ok", package |-> <<>>, classes |-> <<>>],
     KotlinFile("unreadable", <<>>, <<>>)}
    \cup {KotlinFile("ok", p, <<>>) : p \in Packages}

\* Kotlin files whose classes take the parameters `parameters`, in one class
\* or split over two.
KotlinFilesDeclaring(parameters) ==
    {KotlinFile("ok", p, <<[name |-> c, parameters |-> parameters]>>)
     : p \in Packages, c \in ClassNames}
    \cup {KotlinFile("ok", p,
             <<[name |-> c[1], parameters |-> SubSeq(parameters, 1, i)],
               [name |-> c[2], parameters |-> SubSeq(parameters, i + 1, Len(parameters))]>>)
          : p \in Packages, c \in ClassNames \X ClassNames,
            i \in 1..(Len(parameters) - 1)}

\* Kotlin entries by the number of constructor parameters they hold.
KotlinEntries ==
    [j \in 0..MaxParams |->
        IF j = 0 THEN ParameterlessKotlinEntries
        ELSE UNION {KotlinFilesDeclaring(ps) : ps \in [1..j -> ParameterTexts]}]

(***************************************************************************)
(* SchemaParser::new                                                       *)
(***************************************************************************)
SchemaLocals == <<found_schema_files, custom_scalars, schema_queries>>
ResolverState == <<source_dir, query_names, existing_resolvers, resolvers, mismatches>>
KotlinState == <<files, class_map, kotlin_parser>>

\* The two checks of the path before the walk.
SchemaNewValidate ==
    /\ pc = "SchemaParser::new"
    /\ IF schema_dir = "missing"
       THEN /\ result' = Err("InvalidSchemaDir: Schema directory does not exist")
            /\ pc' = "exit"
       ELSE IF schema_dir # "dir"
       THEN /\ result' = Err("InvalidSchemaDir: Schema path is not a directory")
            /\ pc' = "exit"
       ELSE /\ pc' = "schema_walk"
            /\ UNCHANGED result
    /\ UNCHANGED <<schema_dir, walk, walked, SchemaLocals, schema_parser,
                   ResolverState, KotlinState>>

\* A reader that skips a schema file it cannot parse instead of failing.
SchemaFileOutcomeSkippingMalformed(entry) ==
    IF entry.status = "unreadable" THEN Err("FileReadError") ELSE Ok

\* Reading and parsing one schema file: read_to_string(..)? and parse_schema(..)?
SchemaFileOutcome(entry) ==
    IF entry.status = "unreadable" THEN Err("FileReadError")
    ELSE IF entry.status = "malformed" THEN Err("ParseError")
    ELSE Ok

\* One turn of the loop over the entries of the schema directory.
SchemaWalkEntry ==
    /\ pc = "schema_walk"
    /\ walk # <<>>
    /\ LET entry == Head(walk)
       IN /\ walk' = Tail(walk)
          /\ walked' = Append(walked, entry)
          /\ IF entry.kind # "graphqls"
             THEN UNCHANGED <<pc, result, SchemaLocals>>
             ELSE IF SchemaFileOutcome(entry) # Ok
             THEN /\ result' = SchemaFileOutcome(entry)
                  /\ pc' = "exit"
                  /\ found_schema_files' = FALSE
                  /\ custom_scalars' = <<>>
                  /\ schema_queries' = <<>>
             ELSE /\ found_schema_files' = TRUE
                  /\ custom_scalars' =
                        custom_scalars \o ExtractCustomScalars(entry.definitions)
                  /\ schema_queries' =
                        schema_queries \o ExtractQueries(entry.definitions)
                  /\ UNCHANGED <<pc, result>>
    /\ UNCHANGED <<schema_dir, schema_parser, ResolverState, KotlinState>>

\* After the loop: no schema file found is an error; otherwise the arguments
\* are filtered and the parser is returned.
SchemaWalkEnd ==
    /\ pc = "schema_walk"
    /\ walk = <<>>
    /\ IF ~found_schema_files
       THEN /\ result' = Err("NoSchemaFiles")
            /\ pc' = "exit"
            /\ UNCHANGED schema_parser
       ELSE /\ schema_parser' =
                  <<[queries |-> FilterCustomScalars(schema_queries, custom_scalars),
                     custom_scalars |-> custom_scalars]>>
            /\ pc' = "schema_returned"
            /\ UNCHANGED result
    /\ found_schema_files' = FALSE
    /\ custom_scalars' = <<>>
    /\ schema_queries' = <<>>
    /\ UNCHANGED <<schema_dir, walk, walked, ResolverState, KotlinState>>

(***************************************************************************)
(* get_resolver_names                                                      *)
(***************************************************************************)
\* Reading and parsing one source file: read_to_string(..).unwrap() and
\* parser.parse(..).unwrap()
SourceFileOutcome(entry) ==
    IF entry.status = "unreadable" THEN Panic("read_to_string")
    ELSE IF entry.status = "unparsed" THEN Panic("parse")
    ELSE Ok

\* One turn of the loop over the entries of the source directory.  Traversal
\* errors and entries without the kt extension are filtered out; a file that
\* cannot be read or parsed makes unwrap panic.
ResolverWalkEntry ==
    /\ pc = "get_resolver_names"
    /\ walk # <<>>
    /\ LET entry == Head(walk)
       IN /\ walk' = Tail(walk)
          /\ walked' = Append(walked, entry)
          /\ IF entry.kind # "kt"
             THEN UNCHANGED <<pc, result, existing_resolvers>>
             ELSE IF SourceFileOutcome(entry) # Ok
             THEN /\ result' = SourceFileOutcome(entry)
                  /\ pc' = "exit"
                  /\ existing_resolvers' = <<>>
             ELSE /\ existing_resolvers' =
                        ProcessFunctions(existing_resolvers, entry.functions)
                  /\ UNCHANGED <<pc, result>>
    /\ UNCHANGED <<schema_dir, source_dir, SchemaLocals, schema_parser, query_names,
                   resolvers, mismatches, KotlinState>>

\* After the loop: the collected field names are returned.
ResolverWalkEnd ==
    /\ pc = "get_resolver_names"
    /\ walk = <<>>
    /\ resolvers' = <<existing_resolvers>>
    /\ existing_resolvers' = <<>>
    /\ pc' = "resolvers_returned"
    /\ UNCHANGED <<schema_dir, source_dir, walk, walked, SchemaLocals, schema_parser,
                   query_names, mismatches, result, KotlinState>>

(***************************************************************************)
(* main                                                                    *)
(***************************************************************************)
\* main takes the query names of the parser and calls get_resolver_names on
\* the source directory, whatever that path is on disk.
MainGetResolverNames ==
    /\ pc = "schema_returned"
    /\ query_names' = GetQueryNames(schema_parser[1])
    /\ \E kind \in {"missing", "file", "dir"} :
          /\ source_dir' = kind
          /\ IsSourcePath(kind, walk', MainFunctions, FunctionlessSourceEntries)
    /\ walked' = <<>>
    /\ existing_resolvers' = <<>>
    /\ pc' = "get_resolver_names"
    /\ UNCHANGED <<schema_dir, SchemaLocals, schema_parser, resolvers, mismatches,
                   result, KotlinState>>

\* The mismatch loop.
MainMatch ==
    /\ pc = "resolvers_returned"
    /\ mismatches' = <<FindMismatches(query_names, resolvers[1])>>
    /\ pc' = "report"
    /\ UNCHANGED <<schema_dir, source_dir, walk, walked, SchemaLocals, schema_parser,
                   query_names, existing_resolvers, resolvers, result, KotlinState>>

\* A main that reports the mismatches and still returns Ok(()).
MainResultAlwaysOk(found) == Ok

\* The value main returns: Ok(()) for no mismatch, else an error that counts them.
MainResult(found) ==
    IF found = <<>> THEN Ok
    ELSE [kind |-> "Err", error |-> "Found mismatches", count |-> Len(found)]

MainReport ==
    /\ pc = "report"
    /\ result' = MainResult(mismatches[1])
    /\ pc' = "exit"
    /\ UNCHANGED <<schema_dir, source_dir, walk, walked, SchemaLocals, schema_parser,
                   query_names, existing_resolvers, resolvers, mismatches, KotlinState>>

(***************************************************************************)
(* KotlinParser::new                                                       *)
(***************************************************************************)
Capture(name, text) == [name |-> name, text |-> text]

\* The captures of one class declaration: the query matches once for every
\* parameter of the primary constructor, and each match captures the class
\* name and then the parameter.
ClassCaptures(class) ==
    Flatten([i \in 1..Len(class.parameters) |->
               <<Capture("class_name", <<class.name>>),
                 Capture("field_type", class.parameters[i])>>])

\* The captures of package_query over a file, in the order of the text.
FileCaptures(file) ==
    (IF file.package = <<>> THEN <<>> ELSE <<Capture("package_name", file.package)>>)
    \o Flatten([i \in 1..Len(file.classes) |-> ClassCaptures(file.classes[i])])

RECURSIVE SplitOnColon(_)
\* text.split(": "): the parts of the text between the separators.
SplitOnColon(text) ==
    IF ~Contains(text, ": ") THEN <<text>>
    ELSE LET i == CHOOSE k \in 1..Len(text) :
                     text[k] = ": " /\ \A m \in 1..(k - 1) : text[m] # ": "
         IN <<SubSeq(text, 1, i - 1)>> \o SplitOnColon(SubSeq(text, i + 1, Len(text)))

RECURSIVE TrimStartMatches(_, _)
\* text.trim_start_matches(prefix): every leading repetition of prefix removed.
TrimStartMatches(text, prefix) ==
    IF text # <<>> /\ Head(text) = prefix
    THEN TrimStartMatches(Tail(text), prefix)
    ELSE text

\* format!("{}.{}", package, name)
QualifiedName(package, name) == package \o <<".">> \o name

HasKey(map, key) == \E class \in map : class.name = key

\* class.fields.push(field) on the entry of the map under key.
PushField(map, key, field) ==
    {IF class.name = key
     THEN [class EXCEPT !.fields = Append(class.fields, field)]
     ELSE class
     : class \in map}

\* The body of the capture loop for one capture.  The loop state is the
\* package of the file, the shared class map, current_class_name (<<>> for
\* None) and whether an index was out of bounds.
ProcessCapture(st, capture) ==
    IF st.panicked THEN st
    ELSE IF capture.name = "package_name"
    THEN [st EXCEPT !.package = capture.text]
    ELSE IF capture.name = "class_name"
    THEN LET class_name == QualifiedName(st.package, capture.text)
         IN IF HasKey(st.class_map, class_name)
            THEN st
            ELSE [st EXCEPT !.current_class_name = <<class_name>>,
                            !.class_map = st.class_map
                                \cup {[name |-> class_name, fields |-> <<>>]}]
    ELSE LET type_parts == SplitOnColon(capture.text)
         IN IF Len(type_parts) < 2
            THEN [st EXCEPT !.panicked = TRUE]
            ELSE LET field ==
                       [field_name |-> TrimStartMatches(
                                          TrimStartMatches(type_parts[1], "val "), "var "),
                        field_type |-> type_parts[2]]
                 IN IF st.current_class_name = <<>>
                    THEN st
                    ELSE IF HasKey(st.class_map, st.current_class_name[1])
                    THEN [st EXCEPT !.class_map =
                             PushField(st.class_map, st.current_class_name[1], field)]
                    ELSE st

RECURSIVE ProcessCaptures(_, _)
ProcessCaptures(st, captures) ==
    IF captures = <<>> THEN st
    ELSE ProcessCaptures(ProcessCapture(st, Head(captures)), Tail(captures))

\* The capture loop over one file: the package starts empty and
\* current_class_name as None; the class map is shared by the files.
ProcessFile(map, file) ==
    ProcessCaptures([package |-> <<>>, class_map |-> map,
                     current_class_name |-> <<>>, panicked |-> FALSE],
                    FileCaptures(file))

\* One turn of the loop over the entries of the source directory.
KotlinWalkEntry ==
    /\ pc = "KotlinParser::new"
    /\ walk # <<>>
    /\ LET entry == Head(walk)
           st == ProcessFile(class_map, entry)
       IN /\ walk' = Tail(walk)
          /\ walked' = Append(walked, entry)
          /\ IF entry.kind # "kt"
             THEN UNCHANGED <<pc, result, files, class_map>>
             ELSE IF entry.status = "unreadable"
             THEN /\ result' = Panic("read_to_string")
                  /\ pc' = "exit"
                  /\ files' = <<>>
                  /\ class_map' = {}
             ELSE IF st.panicked
             THEN /\ result' = Panic("index out of bounds")
                  /\ pc' = "exit"
                  /\ files' = <<>>
                  /\ class_map' = {}
             ELSE /\ files' = Append(files, [package |-> st.package])
                  /\ class_map' = st.class_map
                  /\ UNCHANGED <<pc, result>>
    /\ UNCHANGED <<schema_dir, source_dir, SchemaLocals, schema_parser, query_names,
                   existing_resolvers, resolvers, mismatches, kotlin_parser>>

\* After the loop: the parser is returned.
KotlinWalkEnd ==
    /\ pc = "KotlinParser::new"
    /\ walk = <<>>
    /\ kotlin_parser' = <<[files |-> files, class_map |-> class_map]>>
    /\ files' = <<>>
    /\ class_map' = {}
    /\ pc' = "kotlin_returned"
    /\ UNCHANGED <<schema_dir, source_dir, walk, walked, SchemaLocals, schema_parser,
                   query_names, existing_resolvers, resolvers, mismatches, result>>

(***************************************************************************)
(* Specifications.                                                         *)
(***************************************************************************)
\* Start of a run of SchemaParser::new on a schema path.
InitSchemaParser(byWeight, maxWeight) ==
    /\ pc = "SchemaParser::new"
    /\ schema_dir \in {"missing", "file", "dir"}
    /\ IsSchemaPath(schema_dir, walk, byWeight, maxWeight)
    /\ walked = <<>>
    /\ found_schema_files = FALSE
    /\ custom_scalars = <<>>
    /\ schema_queries = <<>>
    /\ schema_parser = <<>>
    /\ source_dir = "unvisited"
    /\ query_names = <<>>
    /\ existing_resolvers = <<>>
    /\ resolvers = <<>>
    /\ mismatches = <<>>
    /\ result = Running
    /\ files = <<>>
    /\ class_map = {}
    /\ kotlin_parser = <<>>

\* A run of main starts with the call of SchemaParser::new.
Init == InitSchemaParser(MainSchemaEntries, MaxFields)

SchemaParserNext == SchemaNewValidate \/ SchemaWalkEntry \/ SchemaWalkEnd

GetResolverNamesNext == ResolverWalkEntry \/ ResolverWalkEnd

Next ==
    \/ SchemaParserNext
    \/ MainGetResolverNames
    \/ GetResolverNamesNext
    \/ MainMatch
    \/ MainReport

Spec == Init /\ [][Next]_vars

\* SchemaParser::new alone, as its tests call it, on schema files of every shape.
InitSchema == InitSchemaParser(PlainSchemaEntries, MaxFields)

SpecSchema == InitSchema /\ [][SchemaParserNext]_vars

\* get_resolver_names alone, on a source path.
InitResolvers ==
    /\ pc = "get_resolver_names"
    /\ source_dir \in {"missing", "file", "dir"}
    /\ IsSourcePath(source_dir, walk, ResolverFunctions, FunctionlessSourceEntries)
    /\ walked = <<>>
    /\ schema_dir = "dir"
    /\ found_schema_files = FALSE
    /\ custom_scalars = <<>>
    /\ schema_queries = <<>>
    /\ schema_parser = <<>>
    /\ query_names = <<>>
    /\ existing_resolvers = <<>>
    /\ resolvers = <<>>
    /\ mismatches = <<>>
    /\ result = Running
    /\ files = <<>>
    /\ class_map = {}
    /\ kotlin_parser = <<>>

SpecResolvers == InitResolvers /\ [][GetResolverNamesNext]_vars

\* SchemaParser::new alone, on schema files whose fields take arguments.
InitArguments == InitSchemaParser(ArgumentSchemaEntries, MaxArgs)

SpecArguments == InitArguments /\ [][SchemaParserNext]_vars

\* KotlinParser::new alone, as its test calls it, on a source directory of up
\* to MaxFiles entries holding up to MaxParams constructor parameters.
InitKotlin ==
    /\ pc = "KotlinParser::new"
    /\ source_dir = "dir"
    /\ \E n \in 0..MaxFiles : IsWeightedSeq(walk, KotlinEntries, n, MaxParams, <<>>)
    /\ walked = <<>>
    /\ schema_dir = "dir"
    /\ found_schema_files = FALSE
    /\ custom_scalars = <<>>
    /\ schema_queries = <<>>
    /\ schema_parser = <<>>
    /\ query_names = <<>>
    /\ existing_resolvers = <<>>
    /\ resolvers = <<>>
    /\ mismatches = <<>>
    /\ result = Running
    /\ files = <<>>
    /\ class_map = {}
    /\ kotlin_parser = <<>>

KotlinParserNext == KotlinWalkEntry \/ KotlinWalkEnd

SpecKotlin == InitKotlin /\ [][KotlinParserNext]_vars

(***************************************************************************)
(* Properties of main (specification Spec).                                *)
(***************************************************************************)
\* The positions of query_names that hold a name no resolver is bound to.
MissingPositions(names, found) ==
    {i \in 1..Len(names) : \A j \in 1..Len(found) : found[j] # names[i]}

\* Whether seq lists, in increasing order of position, the elements of names
\* at the positions in `positions`.
ListsPositions(seq, names, positions) ==
    /\ Len(seq) = Cardinality(positions)
    /\ \A i \in positions :
          seq[Cardinality({j \in positions : j <= i})] = names[i]

\* C1: the mismatch list is exactly the subsequence of the query names, in
\* schema order and one record per entry, of the names that are not among the
\* resolver field names; a resolver field name that is no query name produces
\* no record.
C1_MismatchesAreTheUnresolvedQueries ==
    mismatches # <<>> =>
        /\ ListsPositions(mismatches[1], query_names,
                          MissingPositions(query_names, resolvers[1]))
        /\ \A k \in 1..Len(mismatches[1]) :
              /\ ~Contains(resolvers[1], mismatches[1][k])
              /\ Contains(query_names, mismatches[1][k])

\* A run where one query is resolved, one is not, and a resolver is bound to a
\* field the schema does not declare.
C1_Witness ==
    /\ mismatches # <<>>
    /\ Len(mismatches[1]) = 1
    /\ Len(query_names) = 2
    /\ \E j \in 1..Len(resolvers[1]) : ~Contains(query_names, resolvers[1][j])

\* C5 as claimed: a schema path or a source path that is no directory aborts
\* the run with an error before any file is read, and no query list, no
\* resolver list and no mismatch list is produced.
C5_InvalidDirectoriesAbort ==
    /\ schema_dir # "dir" =>
          /\ walked = <<>> /\ schema_parser = <<>> /\ mismatches = <<>>
          /\ pc \in {"SchemaParser::new", "exit"}
          /\ pc = "exit" => result.kind = "Err"
    /\ source_dir \in {"missing", "file"} =>
          /\ \A i \in 1..Len(walked) : walked[i].kind # "kt"
          /\ resolvers = <<>> /\ mismatches = <<>>
          /\ pc = "exit" => result.kind = "Err" /\ result.count = 0

\* Entries whose reading or parsing fails.
IsFatalEntry(entry) == entry.kind \in {"graphqls", "kt"} /\ entry.status # "ok"

\* The order of the stages: schema extraction, source extraction, matching,
\* reporting, exit.
StageOf(position) ==
    CASE position \in {"SchemaParser::new", "schema_walk"} -> 1
      [] position \in {"schema_returned", "get_resolver_names"} -> 2
      [] position = "resolvers_returned" -> 3
      [] position = "report" -> 4
      [] OTHER -> 5

\* What holds of every state of a run: matching has both extractions behind
\* it, and a fatal error has ended the run with nothing built after it.
C6_StagesInState ==
    /\ mismatches # <<>> => schema_parser # <<>> /\ resolvers # <<>>
    /\ resolvers # <<>> => schema_parser # <<>>
    /\ (\E i \in 1..Len(walked) : IsFatalEntry(walked[i])) =>
          /\ pc = "exit"
          /\ result.kind \in {"Err", "Panic"}
          /\ IsFatalEntry(walked[Len(walked)])
          /\ resolvers = <<>> /\ mismatches = <<>>
          /\ walked[Len(walked)].kind = "graphqls" => schema_parser = <<>>
    /\ result.error = "NoSchemaFiles" =>
          pc = "exit" /\ schema_parser = <<>> /\ resolvers = <<>> /\ mismatches = <<>>
    /\ result.kind \in {"Err", "Panic"} => pc = "exit"

\* What holds of every step of a run: the stages are entered in their order,
\* what a stage returned is never built again, and nothing follows the exit.
C6_StagesInStep ==
    /\ StageOf(pc') >= StageOf(pc)
    /\ pc = "exit" => UNCHANGED vars
    /\ schema_parser # <<>> => schema_parser' = schema_parser
    /\ resolvers # <<>> => resolvers' = resolvers
    /\ mismatches # <<>> => mismatches' = mismatches

\* C6: the stages run at most once each in the order Extract Schema, Extract
\* Source Symbols, Match; Match starts only after both extractions completed;
\* after the first fatal error no later stage runs and no partial query list
\* or mismatch list is produced.
C6_StagesRunOnceInOrder == [](C6_StagesInState) /\ [][C6_StagesInStep]_vars

\* A run that read a valid schema file, then one that does not parse, and ended.
C6_Witness ==
    /\ pc = "exit"
    /\ Len(walked) = 2
    /\ walked[1].kind = "graphqls" /\ walked[1].status = "ok"
    /\ Len(walked[1].definitions) = 1 /\ walked[1].definitions[1].kind = "Object"
    /\ walked[2].status = "malformed"
    /\ result = Err("ParseError")

\* C7: when both extractions completed and main has returned, the result is
\* Ok iff the mismatch list is empty, and otherwise an error whose count is
\* the number of query entries without a resolver.
C7_ResultReportsMismatches ==
    (pc = "exit" /\ resolvers # <<>>) =>
        /\ mismatches # <<>>
        /\ result.kind = "Ok" <=> mismatches[1] = <<>>
        /\ mismatches[1] # <<>> =>
              /\ result.kind = "Err"
              /\ result.count = Len(mismatches[1])
              /\ result.count =
                    Cardinality(MissingPositions(query_names, resolvers[1]))

\* A run that ended in failure with two queries unresolved.
C7_Witness ==
    /\ pc = "exit"
    /\ resolvers # <<>>
    /\ result.kind = "Err"
    /\ result.count = 2
    /\ resolvers[1] # <<>>

(***************************************************************************)
(* Properties of SchemaParser::new (specifications SpecSchema and          *)
(* SpecArguments).                                                         *)
(***************************************************************************)
RECURSIVE RootFieldsOfDefinitions(_)
\* The fields declared on object type definitions named Query, in the order of
\* the definitions.
RootFieldsOfDefinitions(definitions) ==
    IF definitions = <<>> THEN <<>>
    ELSE LET def == definitions[Len(definitions)]
             before == RootFieldsOfDefinitions(SubSeq(definitions, 1, Len(definitions) - 1))
         IN IF def.kind = "Object" /\ def.name = "Query"
            THEN before \o def.fields
            ELSE before

RECURSIVE RootFields(_)
\* The root-type fields of a sequence of entries, file after file.
RootFields(entries) ==
    IF entries = <<>> THEN <<>>
    ELSE LET e == entries[Len(entries)]
             before == RootFields(SubSeq(entries, 1, Len(entries) - 1))
         IN IF e.kind = "graphqls" /\ e.status = "ok"
            THEN before \o RootFieldsOfDefinitions(e.definitions)
            ELSE before

\* C8: the returned queries are, one for one and in order, the fields declared
\* on object types named Query, file after file in enumeration order; a name
\* declared twice appears twice, and fields of other definitions yield nothing.
C8_OneQueryPerRootField ==
    schema_parser # <<>> =>
        LET fields == RootFields(walked)
            names == GetQueryNames(schema_parser[1])
        IN /\ Len(names) = Len(fields)
           /\ \A i \in 1..Len(fields) : names[i] = fields[i].name

\* Two files declare the same field on the root type, and both are returned.
C8_Witness ==
    /\ schema_parser # <<>>
    /\ Len(walked) = 2
    /\ Len(schema_parser[1].queries) = 2
    /\ schema_parser[1].queries[1].name = schema_parser[1].queries[2].name
    /\ Len(RootFieldsOfDefinitions(walked[1].definitions)) = 1

\* The names, as the code renders them, of the scalars the files declare.
DeclaredScalars(entries) ==
    UNION {{<<e.definitions[k].name>>
            : k \in {k \in 1..Len(e.definitions) : e.definitions[k].kind = "Scalar"}}
           : e \in {entries[i] : i \in 1..Len(entries)}}

\* C2: when SchemaParser::new returns, no argument of a returned query has a
\* value_type in the collected scalar set, whichever file declares the scalar;
\* the arguments whose type is no declared scalar are all kept, in order.
C2_NoCustomScalarArguments ==
    schema_parser # <<>> =>
        LET fields == RootFields(walked)
            queries == schema_parser[1].queries
            scalars == DeclaredScalars(walked)
        IN /\ Len(queries) = Len(fields)
           /\ \A s \in scalars : Contains(schema_parser[1].custom_scalars, s)
           /\ \A i \in 1..Len(queries) :
                 LET declared == [j \in 1..Len(fields[i].arguments) |->
                                     MakeArgument(fields[i].arguments[j])]
                     kept == {j \in 1..Len(declared) : declared[j].value_type \notin scalars}
                 IN /\ \A j \in 1..Len(queries[i].arguments) :
                          ~Contains(schema_parser[1].custom_scalars,
                                    queries[i].arguments[j].value_type)
                    /\ ListsPositions(queries[i].arguments, declared, kept)

\* The query is declared in the first file and the scalar in the second; of
\* its two arguments the one of the scalar type is gone and the other is kept.
C2_Witness ==
    /\ schema_parser # <<>>
    /\ Len(walked) = 2
    /\ Len(RootFields(<<walked[1]>>)) = 1
    /\ Len(RootFields(<<walked[1]>>)[1].arguments) = 2
    /\ DeclaredScalars(<<walked[1]>>) = {}
    /\ DeclaredScalars(<<walked[2]>>) # {}
    /\ Len(schema_parser[1].queries[1].arguments) = 1

\* Whether a declared type carries a trailing non-null marker.
HasTrailingMarker(type) ==
    type.wrappers # <<>> /\ type.wrappers[Len(type.wrappers)] = "NonNull"

\* A declared type without its trailing non-null marker.
WithoutTrailingMarker(type) ==
    IF HasTrailingMarker(type)
    THEN [type EXCEPT !.wrappers = SubSeq(type.wrappers, 1, Len(type.wrappers) - 1)]
    ELSE type

\* C3 as claimed: for every argument of every root-type field, is_nullable is
\* false iff the declared type carries a trailing non-null marker, and
\* value_type is the declared type with that trailing marker stripped.
C3_NullabilityFollowsTrailingMarker ==
    pc = "schema_walk" =>
        LET fields == RootFields(walked)
        IN /\ Len(schema_queries) = Len(fields)
           /\ \A i \in 1..Len(fields) :
                 /\ Len(schema_queries[i].arguments) = Len(fields[i].arguments)
                 /\ \A j \in 1..Len(fields[i].arguments) :
                       LET type == fields[i].arguments[j].value_type
                           argument == schema_queries[i].arguments[j]
                       IN /\ argument.is_nullable = ~HasTrailingMarker(type)
                          /\ argument.value_type =
                                TypeToString(WithoutTrailingMarker(type))

(***************************************************************************)
(* Properties of get_resolver_names (specification SpecResolvers).         *)
(***************************************************************************)
\* The function declarations of the source files among the entries.
FunctionsOf(entries) ==
    UNION {{e.functions[k] : k \in 1..Len(e.functions)}
           : e \in {entries[i] : i \in 1..Len(entries)}}

\* The fields that some function declaration binds to root type Query.
QueryBoundFields(entries) ==
    {f.annotations[1].field
     : f \in {g \in FunctionsOf(entries) :
                 g.annotations # <<>> /\ g.annotations[1].type_name = "Query"}}

\* C4 as claimed: get_resolver_names returns exactly the fields that the
\* function declarations bind to root type Query, each once; functions bound
\* to another root type or not annotated contribute nothing.
C4_ResolverNamesAreTheQueryBindings ==
    resolvers # <<>> =>
        /\ {resolvers[1][i] : i \in 1..Len(resolvers[1])} = QueryBoundFields(walked)
        /\ \A i, j \in 1..Len(resolvers[1]) :
              resolvers[1][i] = resolvers[1][j] => i = j

\* C10 as claimed: a function declaration that binds field F to root type
\* Query puts F in the returned set whether or not the function-name pattern
\* matches its text.
C10_NamePatternDoesNotDecide ==
    resolvers # <<>> =>
        \A f \in FunctionsOf(walked) :
            (f.annotations # <<>> /\ f.annotations[1].type_name = "Query")
                => Contains(resolvers[1], f.annotations[1].field)

(***************************************************************************)
(* Properties of KotlinParser::new (specification SpecKotlin).             *)
(***************************************************************************)
RECURSIVE ClassDeclarations(_)
\* The class declarations the query captures (those with a constructor
\* parameter), file after file, each under its qualified name.
ClassDeclarations(entries) ==
    IF entries = <<>> THEN <<>>
    ELSE LET e == entries[Len(entries)]
             before == ClassDeclarations(SubSeq(entries, 1, Len(entries) - 1))
             declared == SelectSeq(e.classes, LAMBDA c : c.parameters # <<>>)
         IN before \o [i \in 1..Len(declared) |->
                          [name |-> QualifiedName(e.package, <<declared[i].name>>),
                           parameters |-> declared[i].parameters]]

\* The fields of the parameters of a declaration.
FieldsOf(parameters) ==
    [i \in 1..Len(parameters) |->
        LET parts == SplitOnColon(parameters[i])
        IN [field_name |-> SelectSeq(parts[1], LAMBDA t : t \notin {"val ", "var "}),
            field_type |-> parts[2]]]

\* C9 as claimed: every entry of the class map holds exactly the parameters of
\* the first declaration registered under its key; the parameters of a later
\* declaration of the same qualified name are added to no entry.
C9_DuplicateClassIsDropped ==
    kotlin_parser # <<>> =>
        LET declarations == ClassDeclarations(walked)
        IN \A class \in kotlin_parser[1].class_map :
              \E i \in 1..Len(declarations) :
                 /\ declarations[i].name = class.name
                 /\ \A j \in 1..(i - 1) : declarations[j].name # class.name
                 /\ class.fields = FieldsOf(declarations[i].parameters)

(***************************************************************************)
(* Properties of main under another traversal order (specification Spec).  *)
(***************************************************************************)
RECURSIVE GetResolverNames(_, _)
\* get_resolver_names as a function of the entries WalkDir yields, in the
\* order it yields them: the field names returned, or the panic of the first
\* file that cannot be read or parsed.
GetResolverNames(entries, existing) ==
    IF entries = <<>> THEN [result |-> Ok, names |-> existing]
    ELSE LET entry == Head(entries)
         IN IF entry.kind # "kt" THEN GetResolverNames(Tail(entries), existing)
            ELSE IF SourceFileOutcome(entry) # Ok
            THEN [result |-> SourceFileOutcome(entry), names |-> <<>>]
            ELSE GetResolverNames(Tail(entries),
                                  ProcessFunctions(existing, entry.functions))

\* The entries of the source path of this run, in the order `order` (a
\* permutation of their positions).
Reordered(entries, order) == [i \in 1..Len(entries) |-> entries[order[i]]]

\* C11: when main has ended, every other order of traversing the same source
\* entries gives the same outcome: it panics if and only if this run did, and
\* otherwise it returns the same set of resolver field names and main builds
\* from it the identical mismatch list (same names, same order).
C11_TraversalOrderDoesNotMatter ==
    (pc = "exit" /\ source_dir # "unvisited") =>
        \A order \in Permutations(1..Len(walked \o walk)) :
            LET other == GetResolverNames(Reordered(walked \o walk, order), <<>>)
            IN IF mismatches = <<>> THEN other.result.kind = "Panic"
               ELSE /\ other.result = Ok
                    /\ {other.names[i] : i \in 1..Len(other.names)}
                          = {resolvers[1][i] : i \in 1..Len(resolvers[1])}
                    /\ FindMismatches(query_names, other.names) = mismatches[1]

\* A run over two source files that bind different fields, one of them a
\* declared query and the other query left without a resolver: the opposite
\* order returns the field names in another sequence.
C11_Witness ==
    /\ pc = "exit"
    /\ mismatches # <<>>
    /\ mismatches[1] # <<>>
    /\ Len(mismatches[1]) < Len(query_names)
    /\ Len(walked) = 2
    /\ GetResolverNames(<<walked[2], walked[1]>>, <<>>).names # resolvers[1]

====
